---- MODULE Spec2Model ----
(***************************************************************************)
(* Event-driven WFE main loop of the AT32F421 PWM demo (main.c, timer.c,   *)
(* usart.c, crm.c).  The software is one sequential control flow (pc); the *)
(* hardware it polls is the TMR14 update flag OVFIF, the NVIC pending bit  *)
(* of the TMR14 interrupt, the core's event latch and SCR.SEVONPEND.  The  *)
(* timer period elapse and any other event source are actions of the       *)
(* environment that interleave freely with the steps of the software.      *)
(*                                                                         *)
(* Variables whose comment says "history" are not program state: they      *)
(* record what has happened (true, unwrapped counts; what set the latch)   *)
(* so that the properties can speak about it.  No action's guard or        *)
(* program-state update reads a history variable.                          *)
(***************************************************************************)
EXTENDS Integers, Naturals, Sequences, FiniteSets, TLC

\* ---------------------------------------------------------------- bounds
\* real (single-step) period elapses explored by one behaviour
MaxElapses == 6
\* real (single-step) foreign events explored by one behaviour
MaxExt == 1
\* fast-forward steps (many quiet iterations at once) in one behaviour
MaxJumps == 1
\* sizes of the fast-forward steps: to just below the point where
\* timer_overflow_count * 100 leaves 32 bits, and to just below the wrap of
\* timer_overflow_count (genuine iterations) or wfe_wake_count (spurious)
JumpMul == 42949670
\* distance of the other two fast-forward sizes below 2^32
WrapBack == 2
SpuriousBack == 5
\* arguments of usart_put_uint tried: 0 .. MaxSmall, and 10^k, 10^k - 1
\* (reduced modulo 2^32) for k up to MaxPow
MaxSmall == 12
MaxPow == 9
\* period elapses in one behaviour of the fair specification
LiveElapses == 5
\* period elapses in one behaviour of the specification with a hard fault
FaultElapses == 5

\* ------------------------------------------------------ program constants
\* uint32_t: two halves of 16 bits, 65536 values each
LIMB == 65536
\* (current_time - last_print_time) >= 5
REPORT_INTERVAL == 5
\* timer_overflow_count * 100
PERCENT == 100
BUF_SIZE == 11
RADIX == 10
\* polls of a status bit before crm_config gives up
CRM_HEXT_TIMEOUT == 50000
CRM_PLL_TIMEOUT == 50000
CRM_SWITCH_TIMEOUT == 50000

VARIABLES
  pc,                    \* position of the single control flow
  timer_overflow_count,  \* main.c static uint32_t
  wfe_wake_count,        \* main.c static uint32_t
  last_print_time,       \* print_runtime_stats static uint32_t
  current_time,          \* print_runtime_stats local
  crm_status,            \* value returned by crm_config ("none" before)
  clk_en,                \* GPIOA/TMR14/USART1 peripheral clocks enabled
  hext,                  \* build option: HEXT_FREQUENCY is defined
  timeout,               \* crm_config local (0 outside the call)
  polls,                 \* history: unsuccessful polls of the running wait
  crm_ctrl,              \* CRM->ctrl: the bits that are set
  crm_cfg,               \* CRM->cfg: the bit fields that are set
  crm_misc2,             \* CRM->misc2: the bit fields that are set
  flash_psr,             \* FLASH->psr: the bit fields that are set
  uien,                  \* TMR14->iden UIEN
  cen,                   \* TMR14->ctrl1 CEN (counter running)
  uen,                   \* USART1->ctrl1 UEN|TEN
  ovfif,                 \* TMR14->ists OVFIF
  pend,                  \* NVIC pending bit of TMR14_GLOBAL_IRQn
  latch,                 \* the core's event register
  sevonpend,             \* SCB->SCR SEVONPEND
  line,                  \* fields of the report line being transmitted
  out,                   \* fields of the last complete report line
  tdbe,                  \* USART1->sts TDBE (transmit data buffer empty)
  txq,                   \* characters the running usart call has yet to send
  sent,                  \* characters that call has written to USART1->dt
  ubuf,                  \* argument and final ptr of the last usart_put_uint
  n_elapse,              \* history: period elapses since the timer started
  n_coalesced,           \* history: elapses that found OVFIF still set
  ext_post,            \* history: foreign latch sets after the drain
  wakes_true,            \* history: main-loop WFE returns, unwrapped
  events_true,           \* history: confirmed events, unwrapped
  n_reports,             \* history: reports completed
  last_true,             \* history: events_true at the last report
  latch_src,             \* history: what last set the latch, and when
  woke_src,              \* history: latch_src consumed by the last WFE
  race,                  \* history: an elapse hit between clear and WFE
  iter_counted,          \* history: this iteration counted an event
  clean,                 \* history: every elapse so far hit a sleeping loop
  flag_old,              \* history: OVFIF was set before the last pending clear
  e_steps, x_steps, jumps \* exploration budget used so far

vars == <<pc, timer_overflow_count, wfe_wake_count, last_print_time,
          current_time, crm_status, clk_en, hext, timeout, polls, crm_ctrl,
          crm_cfg, crm_misc2, flash_psr, uien, cen, uen, ovfif, pend,
          latch, sevonpend, line, out, tdbe, txq, sent, ubuf, n_elapse, n_coalesced, ext_post,
          wakes_true, events_true, n_reports, last_true, latch_src, woke_src,
          race, iter_counted, clean, flag_old, e_steps, x_steps, jumps>>

prog == <<timer_overflow_count, wfe_wake_count, last_print_time, current_time>>
crm == <<hext, timeout, polls, crm_ctrl, crm_cfg, crm_misc2, flash_psr>>
cfg == <<crm_status, clk_en, uien, cen, uen, sevonpend, crm>>
outp == <<line, out, n_reports, last_true>>
usart == <<tdbe, txq, sent, ubuf>>
hist == <<n_elapse, n_coalesced, ext_post, wakes_true, events_true,
          latch_src, woke_src, race, iter_counted, clean, flag_old>>
budget == <<e_steps, x_steps, jumps>>

\* ------------------------------------------------------------ arithmetic
\* A natural number is a pair <<hi, lo>> of value hi * 65536 + lo with
\* lo < 65536 (the model checker's integers end below 2^32).  A uint32_t is
\* such a pair with hi < 65536 as well; the unwrapped counts of the history
\* are pairs with any hi.
Norm(hi, lo) == <<hi + (lo \div LIMB), lo % LIMB>>
FromInt(n) == Norm(0, n)
Zero == <<0, 0>>
One == <<0, 1>>
BAdd(a, b) == Norm(a[1] + b[1], a[2] + b[2])
\* a - b for a >= b
BSub(a, b) ==
  IF a[2] >= b[2] THEN <<a[1] - b[1], a[2] - b[2]>>
  ELSE <<(a[1] - b[1]) - 1, (a[2] + LIMB) - b[2]>>
BLe(a, b) == a[1] < b[1] \/ (a[1] = b[1] /\ a[2] <= b[2])
BLt(a, b) == a[1] < b[1] \/ (a[1] = b[1] /\ a[2] < b[2])
\* a * k, a \div k, a % k for a small k
BMulS(a, k) == Norm(a[1] * k, a[2] * k)
BDivS(a, k) == Norm(a[1] \div k, ((a[1] % k) * LIMB + a[2]) \div k)
BModS(a, k) == ((a[1] % k) * LIMB + a[2]) % k
\* reduction modulo 2^32
Wrap32(a) == <<a[1] % LIMB, a[2]>>
IsU32(a) == a[1] \in 0..(LIMB - 1) /\ a[2] \in 0..(LIMB - 1)

\* uint32_t +, - and * as the C code computes them
Add32(a, b) == Wrap32(BAdd(a, b))
Sub32(a, b) == IF BLe(b, a) THEN BSub(a, b) ELSE BSub(<<a[1] + LIMB, a[2]>>, b)
Mul32(a, k) == Wrap32(BMulS(a, k))

\* bit i (0..31) of a uint32_t, and 2^i
RECURSIVE Pow2(_)
Pow2(i) == IF i = 0 THEN 1 ELSE 2 * Pow2(i - 1)
Bit(a, i) == IF i >= 16 THEN (a[1] \div Pow2(i - 16)) % 2
             ELSE (a[2] \div Pow2(i)) % 2
\* uint32_t / : restoring division, bit 31 down to bit 0.  The state of
\* the division is <<bit index, remainder, quotient>>.
Pair == Nat \X Nat
DivStep(a, w) ==
  LET step[s \in Int \X Pair \X Pair] ==
        LET i == s[1]
            q == s[3]
            r2 == BAdd(BAdd(s[2], s[2]), <<0, Bit(a, i)>>)
        IN IF i < 0 THEN q
           ELSE IF BLe(w, r2)
                THEN step[<<i - 1, BSub(r2, w),
                            IF i >= 16 THEN <<q[1] + Pow2(i - 16), q[2]>>
                            ELSE <<q[1], q[2] + Pow2(i)>>>>]
                ELSE step[<<i - 1, r2, q>>]
  IN step
Div32(a, w) == DivStep(a, w)[<<31, Zero, Zero>>]

InitPcs == {"crm_config", "gpio_config", "timer_config", "usart_config",
            "set_sevonpend", "sev", "drain_wfe", "drain_sleep"}
LoopPcs == {"clear_pending", "wfe", "wfe_sleep", "inc_wake", "check",
            "clear_flag", "inc_overflow", "print_check", "print_events",
            "print_wakes", "print_eff", "print_end", "print_mark"}
PrintPcs == {"print_check", "print_events", "print_wakes", "print_eff",
             "print_end", "print_mark"}
FaultPcs == {"hard_fault", "halt", "halt_nop"}
UintPcs == {"put_uint", "put_uint_done"}
CrmPcs == {"crm_hext_wait", "crm_pll_wait", "crm_switch_wait"}
Pcs == InitPcs \cup CrmPcs \cup {"print_system_info"} \cup LoopPcs \cup FaultPcs
         \cup UintPcs

\* where control continues when the usart calls made at p have returned
AfterTx(p) ==
  CASE p = "print_system_info" -> "clear_pending"
    [] p = "print_events" -> "print_wakes"
    [] p = "print_wakes" -> "print_eff"
    [] p = "print_eff" -> "print_end"
    [] p = "print_end" -> "print_mark"
    [] p = "hard_fault" -> "halt"
    [] p = "put_uint" -> "put_uint_done"

\* the drain has completed
PostDrain == pc \notin InitPcs

\* ------------------------------------------------------------- hardware
\* An update event of TMR14 (period elapse or forced by OVFGEN) sets OVFIF;
\* with the update interrupt enabled it raises the interrupt request, which
\* sets the NVIC pending bit.
PendAfterUpdate(p) == p \/ uien

\* SEVONPEND: only a 0-to-1 transition of the pending bit sets the latch.
LatchAfterUpdate(l, p) == l \/ (uien /\ sevonpend /\ ~p)

\* history only: who set the latch if this update set it
SrcAfterUpdate(l, p) ==
  IF ~l /\ LatchAfterUpdate(l, p)
  THEN (IF PostDrain THEN "tmr_post" ELSE "tmr_pre")
  ELSE latch_src

TimerRunning == clk_en /\ cen

\* --------------------------------------------------------- pure functions
\* variant: > instead of >=
ShouldPrint_Strict(cur, last) == BLt(FromInt(REPORT_INTERVAL), Sub32(cur, last))

\* variant: current_time >= last_print_time + 5 without the wrap
ShouldPrint_NoWrap(cur, last) == BLe(BAdd(last, FromInt(REPORT_INTERVAL)), cur)

\* print_runtime_stats: (current_time - last_print_time) >= 5
ShouldPrint(cur, last) == BLe(FromInt(REPORT_INTERVAL), Sub32(cur, last))

\* variant: the guard against a zero wake count is missing
HasEfficiency_Always(w) == TRUE

\* print_runtime_stats: if (wfe_wake_count > 0)
HasEfficiency(w) == BLt(Zero, w)

\* print_runtime_stats: (timer_overflow_count * 100) / wfe_wake_count
Efficiency(t, w) == Div32(Mul32(t, PERCENT), w)

\* the fields of one report line, as print_runtime_stats emits them
ReportLine(t, w) ==
  <<<<"TMR Events", t>>, <<"WFE Wakes", w>>>>
    \o (IF HasEfficiency(w) THEN <<<<"Efficiency", Efficiency(t, w)>>>>
        ELSE <<>>)

\* '0' + d
DigitChar(d) == <<"0", "1", "2", "3", "4", "5", "6", "7", "8", "9">>[d + 1]

\* usart_put_uint: while (value > 0) { *(--ptr) = '0' + value % 10;
\* value /= 10; }  ptr is an index into buffer[0 .. BUF_SIZE - 1], text the
\* characters from ptr up to the terminator.
PutUintStep[s \in Pair \X Int \X Seq(STRING)] ==
  LET value == s[1]
      ptr == s[2]
      text == s[3]
  IN IF BLt(Zero, value)
     THEN PutUintStep[<<BDivS(value, RADIX), ptr - 1,
                        <<DigitChar(BModS(value, RADIX))>> \o text>>]
     ELSE [value |-> Zero, ptr |-> ptr, text |-> text]
PutUintLoop(value, ptr, text) == PutUintStep[<<value, ptr, text>>]

\* variant: the zero case is left to the digit loop
PutUintConv_NoZero(value) == PutUintLoop(value, BUF_SIZE - 1, <<>>)

\* usart_put_uint up to its call of usart_puts(ptr)
PutUintConv(value) ==
  IF value = Zero
  THEN [value |-> Zero, ptr |-> (BUF_SIZE - 1) - 1, text |-> <<"0">>]
  ELSE PutUintLoop(value, BUF_SIZE - 1, <<>>)

\* the characters usart_put_uint(value) hands to usart_puts
UintText(value) == PutUintConv(value).text
\* what ubuf records of the call usart_put_uint(value)
UintCall(value) == [value |-> value, ptr |-> PutUintConv(value).ptr]

\* usart_puts("\r\nAT32F421 PWM Demo with WFE\r\n")
STR_TITLE ==
  <<"\r", "\n", "A", "T", "3", "2", "F", "4", "2", "1", " ", "P", "W", "M",
    " ", "D", "e", "m", "o", " ", "w", "i", "t", "h", " ", "W", "F", "E",
    "\r", "\n">>
\* usart_puts("---------------------------\r\n")
STR_RULE ==
  <<"-", "-", "-", "-", "-", "-", "-", "-", "-", "-", "-", "-", "-", "-",
    "-", "-", "-", "-", "-", "-", "-", "-", "-", "-", "-", "-", "-", "\r",
    "\n">>
\* usart_puts("SYSCLK: ")
STR_SYSCLK ==
  <<"S", "Y", "S", "C", "L", "K", ":", " ">>
\* usart_puts("MHz, PWM Freq: ")
STR_PWM_FREQ ==
  <<"M", "H", "z", ",", " ", "P", "W", "M", " ", "F", "r", "e", "q", ":",
    " ">>
\* usart_puts("Hz, Duty: ")
STR_DUTY ==
  <<"H", "z", ",", " ", "D", "u", "t", "y", ":", " ">>
\* usart_puts("%\r\n")
STR_PERCENT_EOL ==
  <<"%", "\r", "\n">>
\* usart_puts("Power Mode: SEVONPEND + WFE Enabled\r\n\r\n")
STR_POWER_MODE ==
  <<"P", "o", "w", "e", "r", " ", "M", "o", "d", "e", ":", " ", "S", "E",
    "V", "O", "N", "P", "E", "N", "D", " ", "+", " ", "W", "F", "E", " ",
    "E", "n", "a", "b", "l", "e", "d", "\r", "\n", "\r", "\n">>
\* usart_puts("TMR Events: ")
STR_EVENTS ==
  <<"T", "M", "R", " ", "E", "v", "e", "n", "t", "s", ":", " ">>
\* usart_puts(", WFE Wakes: ")
STR_WAKES ==
  <<",", " ", "W", "F", "E", " ", "W", "a", "k", "e", "s", ":", " ">>
\* usart_puts(", Efficiency: ")
STR_EFFICIENCY ==
  <<",", " ", "E", "f", "f", "i", "c", "i", "e", "n", "c", "y", ":", " ">>
\* usart_puts("%")
STR_PERCENT ==
  <<"%">>
\* usart_puts("\r\n")
STR_EOL ==
  <<"\r", "\n">>
\* usart_puts("\r\n*** HARD FAULT! ***\r\nSystem Halted.\r\n")
STR_HARD_FAULT ==
  <<"\r", "\n", "*", "*", "*", " ", "H", "A", "R", "D", " ", "F", "A", "U",
    "L", "T", "!", " ", "*", "*", "*", "\r", "\n", "S", "y", "s", "t", "e",
    "m", " ", "H", "a", "l", "t", "e", "d", ".", "\r", "\n">>

\* print_system_info: SYSTEM_CLOCK_HZ / 1000000, PWM_FREQUENCY_HZ,
\* PWM_DUTY_RATIO
SYSCLK_MHZ == 120
PWM_FREQUENCY_HZ == 1
PWM_DUTY_RATIO == 10
BannerText ==
  STR_TITLE \o STR_RULE \o STR_SYSCLK \o UintText(FromInt(SYSCLK_MHZ))
    \o STR_PWM_FREQ \o UintText(FromInt(PWM_FREQUENCY_HZ))
    \o STR_DUTY \o UintText(FromInt(PWM_DUTY_RATIO))
    \o STR_PERCENT_EOL \o STR_POWER_MODE

\* --------------------------------------------------------------- initial
Init ==
  /\ pc = "crm_config"
  /\ timer_overflow_count = Zero
  /\ wfe_wake_count = Zero
  /\ last_print_time = Zero
  /\ current_time = Zero
  /\ crm_status = "none"
  /\ clk_en = FALSE
  /\ hext = FALSE
  /\ timeout = 0
  /\ polls = 0
  /\ crm_ctrl = {}
  /\ crm_cfg = {}
  /\ crm_misc2 = {}
  /\ flash_psr = {}
  /\ uien = FALSE
  /\ cen = FALSE
  /\ uen = FALSE
  /\ ovfif = FALSE
  /\ pend = FALSE
  /\ latch \in BOOLEAN
  /\ sevonpend = FALSE
  /\ line = <<>>
  /\ out = <<>>
  /\ tdbe = TRUE
  /\ txq = <<>>
  /\ sent = <<>>
  /\ ubuf = [value |-> Zero, ptr |-> BUF_SIZE - 1]
  /\ n_elapse = Zero
  /\ n_coalesced = 0
  /\ ext_post = FALSE
  /\ wakes_true = Zero
  /\ events_true = Zero
  /\ n_reports = Zero
  /\ last_true = Zero
  /\ latch_src = (IF latch THEN "reset" ELSE "none")
  /\ woke_src = "none"
  /\ race = FALSE
  /\ iter_counted = FALSE
  /\ clean = TRUE
  /\ flag_old = FALSE
  /\ e_steps = 0
  /\ x_steps = 0
  /\ jumps = 0

\* ------------------------------------------------------------ environment
\* The timer reaches its period boundary.
Elapse ==
  /\ TimerRunning
  /\ e_steps < MaxElapses
  /\ ovfif' = TRUE
  /\ pend' = PendAfterUpdate(pend)
  /\ latch' = LatchAfterUpdate(latch, pend)
  /\ latch_src' = SrcAfterUpdate(latch, pend)
  /\ n_elapse' = BAdd(n_elapse, One)
  /\ n_coalesced' = n_coalesced + (IF ovfif THEN 1 ELSE 0)
  /\ race' = (race \/ pc = "wfe")
  /\ clean' = (clean /\ pc = "wfe_sleep")
  /\ e_steps' = e_steps + 1
  /\ flag_old' = (ovfif /\ flag_old)
  /\ UNCHANGED <<pc, prog, cfg, outp, usart, ext_post, wakes_true, events_true,
                 woke_src, iter_counted, x_steps, jumps>>

\* Something other than the timer sets the event latch (the reason the loop
\* confirms the source of every wake).
ExternalEvent ==
  /\ x_steps < MaxExt
  /\ latch' = TRUE
  /\ latch_src' = (IF latch THEN latch_src
                   ELSE IF PostDrain THEN "ext_post" ELSE "ext_pre")
  /\ ext_post' = (ext_post \/ PostDrain)
  /\ clean' = (clean /\ ~PostDrain)
  /\ x_steps' = x_steps + 1
  /\ UNCHANGED <<pc, prog, cfg, outp, usart, ovfif, pend, n_elapse, n_coalesced,
                 wakes_true, events_true, woke_src, race, iter_counted,
                 e_steps, jumps, flag_old>>

\* ------------------------------------------------------------ system_init
\* crm_config() step by step.  A register is the set of its bits (or bit
\* fields) that are set; the status bits HEXTSTBL, PLLSTBL and SCLKSTS are
\* set by the hardware and are not changed by a write.

\* CRM->cfg = PLLMULT_L | [PLLRCS_SEL | PLLHEXTDIV_SEL |] PLLMULT_H
PllCfg(h) ==
  {"PLLMULT_L", "PLLMULT_H"}
    \cup (IF h THEN {"PLLRCS_SEL", "PLLHEXTDIV_SEL"} ELSE {})
\* FLASH->psr = WTCYC_3 | PFT_EN | PFT_EN2
FlashFast == {"WTCYC_3", "PFT_EN", "PFT_EN2"}

\* steps 1 to 3: the PLL is configured and enabled, its wait is set up
CrmStartPll ==
  /\ crm_cfg' = PllCfg(hext) \cup (crm_cfg \cap {"SCLKSTS_PLL"})
  /\ crm_ctrl' = crm_ctrl \cup {"PLLEN"}
  /\ timeout' = CRM_PLL_TIMEOUT
  /\ polls' = 0
  /\ pc' = "crm_pll_wait"
  /\ UNCHANGED <<crm_status, clk_en, crm_misc2, flash_psr>>

\* return of an error code from inside a wait
CrmGiveUp(code) ==
  /\ crm_status' = code
  /\ timeout' = 0
  /\ polls' = 0
  /\ pc' = "gpio_config"
  /\ UNCHANGED <<clk_en, crm_ctrl, crm_cfg, crm_misc2, flash_psr>>

\* one more unsuccessful poll: --timeout
CrmPollAgain ==
  /\ timeout' = timeout - 1
  /\ polls' = polls + 1
  /\ UNCHANGED <<pc, crm_status, clk_en, crm_ctrl, crm_cfg, crm_misc2,
                 flash_psr>>

CrmRest == <<prog, hext, uien, cen, uen, sevonpend, ovfif, pend, latch, outp,
             usart, hist, budget>>

\* entry: step 0 with HEXT_FREQUENCY, steps 1 to 3 without
CrmEnter ==
  /\ pc = "crm_config"
  /\ IF hext
       THEN /\ crm_ctrl' = crm_ctrl \cup {"HEXTEN"}
            /\ timeout' = CRM_HEXT_TIMEOUT
            /\ polls' = 0
            /\ pc' = "crm_hext_wait"
            /\ UNCHANGED <<crm_status, clk_en, crm_cfg, crm_misc2, flash_psr>>
       ELSE CrmStartPll
  /\ UNCHANGED CrmRest

\* one test of while (!(CRM->ctrl & CRM_CTRL_HEXTSTBL)) and its body
CrmHextPoll ==
  /\ pc = "crm_hext_wait"
  /\ IF "HEXTSTBL" \in crm_ctrl THEN CrmStartPll
     ELSE IF timeout - 1 = 0 THEN CrmGiveUp("CRM_ERR_HEXT_TIMEOUT")
     ELSE CrmPollAgain
  /\ UNCHANGED CrmRest

\* variant: if (timeout-- == 0)
CrmPllPoll_PostDecrement ==
  /\ pc = "crm_pll_wait"
  /\ IF "PLLSTBL" \in crm_ctrl
       THEN /\ crm_misc2' = crm_misc2 \cup {"AUTO_STEP_EN"}
            /\ flash_psr' = FlashFast
            /\ crm_cfg' = crm_cfg \cup {"SCLKSEL_PLL"}
            /\ timeout' = CRM_SWITCH_TIMEOUT
            /\ polls' = 0
            /\ pc' = "crm_switch_wait"
            /\ UNCHANGED <<crm_status, clk_en, crm_ctrl>>
     ELSE IF timeout = 0 THEN CrmGiveUp("CRM_ERR_PLL_TIMEOUT")
     ELSE CrmPollAgain
  /\ UNCHANGED CrmRest

\* one test of while (!(CRM->ctrl & CRM_CTRL_PLLSTBL)) and its body; on
\* exit steps 4 to 6 and the set-up of the last wait
CrmPllPoll ==
  /\ pc = "crm_pll_wait"
  /\ IF "PLLSTBL" \in crm_ctrl
       THEN /\ crm_misc2' = crm_misc2 \cup {"AUTO_STEP_EN"}
            /\ flash_psr' = FlashFast
            /\ crm_cfg' = crm_cfg \cup {"SCLKSEL_PLL"}
            /\ timeout' = CRM_SWITCH_TIMEOUT
            /\ polls' = 0
            /\ pc' = "crm_switch_wait"
            /\ UNCHANGED <<crm_status, clk_en, crm_ctrl>>
     ELSE IF timeout - 1 = 0 THEN CrmGiveUp("CRM_ERR_PLL_TIMEOUT")
     ELSE CrmPollAgain
  /\ UNCHANGED CrmRest

\* one test of while ((CRM->cfg & SCLKSTS_Msk) != SCLKSTS_PLL) and its
\* body; on exit steps 8 and 9 and return CRM_OK
CrmSwitchPoll ==
  /\ pc = "crm_switch_wait"
  /\ IF "SCLKSTS_PLL" \in crm_cfg
       THEN /\ crm_misc2' = crm_misc2 \ {"AUTO_STEP_EN"}
            /\ clk_en' = TRUE
            /\ crm_status' = "CRM_OK"
            /\ timeout' = 0
            /\ polls' = 0
            /\ pc' = "gpio_config"
            /\ UNCHANGED <<crm_ctrl, crm_cfg, flash_psr>>
     ELSE IF timeout - 1 = 0 THEN CrmGiveUp("CRM_ERR_SWITCH_TIMEOUT")
     ELSE CrmPollAgain
  /\ UNCHANGED CrmRest

\* the clock hardware: an enabled oscillator or PLL may become stable, and
\* a requested switch to a stable PLL may complete
HwRest == <<pc, prog, crm_status, clk_en, hext, timeout, polls, crm_misc2,
            flash_psr, uien, cen, uen, sevonpend, ovfif, pend, latch, outp,
            usart, hist, budget>>
HextStable ==
  /\ "HEXTEN" \in crm_ctrl
  /\ "HEXTSTBL" \notin crm_ctrl
  /\ crm_ctrl' = crm_ctrl \cup {"HEXTSTBL"}
  /\ UNCHANGED <<crm_cfg, HwRest>>
PllStable ==
  /\ "PLLEN" \in crm_ctrl
  /\ "PLLSTBL" \notin crm_ctrl
  /\ crm_ctrl' = crm_ctrl \cup {"PLLSTBL"}
  /\ UNCHANGED <<crm_cfg, HwRest>>
SclkSwitch ==
  /\ "SCLKSEL_PLL" \in crm_cfg
  /\ "PLLSTBL" \in crm_ctrl
  /\ "SCLKSTS_PLL" \notin crm_cfg
  /\ crm_cfg' = crm_cfg \cup {"SCLKSTS_PLL"}
  /\ UNCHANGED <<crm_ctrl, HwRest>>

\* variant: the peripheral clocks are enabled before the waits
CrmConfig_ClocksFirst ==
  /\ pc = "crm_config"
  /\ ~hext
  /\ \E r \in {"CRM_OK", "CRM_ERR_PLL_TIMEOUT", "CRM_ERR_SWITCH_TIMEOUT"} :
       /\ crm_status' = r
       /\ clk_en' = TRUE
       /\ crm_ctrl' = {"PLLEN"} \cup
                        (IF r = "CRM_ERR_PLL_TIMEOUT" THEN {} ELSE {"PLLSTBL"})
       /\ crm_cfg' = PllCfg(FALSE) \cup
                       (IF r = "CRM_ERR_PLL_TIMEOUT" THEN {} ELSE {"SCLKSEL_PLL"})
                       \cup (IF r = "CRM_OK" THEN {"SCLKSTS_PLL"} ELSE {})
       /\ crm_misc2' = (IF r = "CRM_ERR_SWITCH_TIMEOUT"
                         THEN {"AUTO_STEP_EN"} ELSE {})
       /\ flash_psr' = (IF r = "CRM_ERR_PLL_TIMEOUT" THEN {} ELSE FlashFast)
  /\ pc' = "gpio_config"
  /\ UNCHANGED <<prog, hext, timeout, polls, uien, cen, uen, sevonpend, ovfif,
                 pend, latch, outp, usart, hist, budget>>

\* crm_config() as one step of the default build (HEXT_FREQUENCY is not
\* defined): the call with the hardware's answers chosen at once.  The
\* peripheral clocks are enabled only on the CRM_OK path.
CrmConfig ==
  /\ pc = "crm_config"
  /\ ~hext
  /\ \E r \in {"CRM_OK", "CRM_ERR_PLL_TIMEOUT", "CRM_ERR_SWITCH_TIMEOUT"} :
       /\ crm_status' = r
       /\ clk_en' = (r = "CRM_OK")
       /\ crm_ctrl' = {"PLLEN"} \cup
                        (IF r = "CRM_ERR_PLL_TIMEOUT" THEN {} ELSE {"PLLSTBL"})
       /\ crm_cfg' = PllCfg(FALSE) \cup
                       (IF r = "CRM_ERR_PLL_TIMEOUT" THEN {} ELSE {"SCLKSEL_PLL"})
                       \cup (IF r = "CRM_OK" THEN {"SCLKSTS_PLL"} ELSE {})
       /\ crm_misc2' = (IF r = "CRM_ERR_SWITCH_TIMEOUT"
                         THEN {"AUTO_STEP_EN"} ELSE {})
       /\ flash_psr' = (IF r = "CRM_ERR_PLL_TIMEOUT" THEN {} ELSE FlashFast)
  /\ pc' = "gpio_config"
  /\ UNCHANGED <<prog, hext, timeout, polls, uien, cen, uen, sevonpend, ovfif,
                 pend, latch, outp, usart, hist, budget>>

GpioConfig ==
  /\ pc = "gpio_config"
  /\ pc' = "timer_config"
  /\ UNCHANGED <<prog, cfg, ovfif, pend, latch, outp, usart, hist, budget>>

\* variant: the update interrupt is enabled only after the forced update,
\* which then leaves the pending bit clear
TimerConfig_LateUien ==
  /\ pc = "timer_config"
  /\ pc' = "usart_config"
  /\ IF clk_en
     THEN /\ uien' = TRUE
          /\ ovfif' = FALSE
          /\ cen' = TRUE
          /\ UNCHANGED <<pend, latch, latch_src>>
     ELSE UNCHANGED <<uien, pend, latch, latch_src, ovfif, cen>>
  /\ flag_old' = (IF clk_en THEN FALSE ELSE flag_old)
  /\ UNCHANGED <<prog, crm, crm_status, clk_en, uen, sevonpend, outp, usart, n_elapse,
                 n_coalesced, ext_post, wakes_true, events_true, woke_src,
                 race, iter_counted, clean, budget>>

\* variant: the flag of the forced update is not cleared
TimerConfig_NoClear ==
  /\ pc = "timer_config"
  /\ pc' = "usart_config"
  /\ IF clk_en
     THEN /\ uien' = TRUE
          /\ pend' = TRUE
          /\ latch' = (latch \/ (sevonpend /\ ~pend))
          /\ latch_src' = (IF ~latch /\ sevonpend /\ ~pend
                           THEN "tmr_pre" ELSE latch_src)
          /\ ovfif' = TRUE
          /\ cen' = TRUE
     ELSE UNCHANGED <<uien, pend, latch, latch_src, ovfif, cen>>
  /\ flag_old' = (IF clk_en THEN FALSE ELSE flag_old)
  /\ UNCHANGED <<prog, crm, crm_status, clk_en, uen, sevonpend, outp, usart,
                 n_elapse, n_coalesced, ext_post, wakes_true, events_true,
                 woke_src, race, iter_counted, clean, budget>>

\* timer_config(): UIEN, then OVFGEN (an update event), then ists = 0, then
\* CEN.  No period can elapse before CEN, so the whole call is one step.
\* Register writes to an unclocked timer have no effect.
TimerConfig ==
  /\ pc = "timer_config"
  /\ pc' = "usart_config"
  /\ IF clk_en
     THEN /\ uien' = TRUE
          /\ pend' = TRUE
          /\ latch' = (latch \/ (sevonpend /\ ~pend))
          /\ latch_src' = (IF ~latch /\ sevonpend /\ ~pend
                           THEN "tmr_pre" ELSE latch_src)
          /\ ovfif' = FALSE
          /\ cen' = TRUE
     ELSE UNCHANGED <<uien, pend, latch, latch_src, ovfif, cen>>
  /\ flag_old' = (IF clk_en THEN FALSE ELSE flag_old)
  /\ UNCHANGED <<prog, crm, crm_status, clk_en, uen, sevonpend, outp, usart, n_elapse,
                 n_coalesced, ext_post, wakes_true, events_true, woke_src,
                 race, iter_counted, clean, budget>>

UsartConfig ==
  /\ pc = "usart_config"
  /\ pc' = "set_sevonpend"
  /\ uen' = clk_en
  /\ UNCHANGED <<prog, crm, crm_status, clk_en, uien, cen, sevonpend, ovfif, pend,
                 latch, outp, usart, hist, budget>>

\* variant: the write to SCB->SCR is left out
SetSevonpend_Skip ==
  /\ pc = "set_sevonpend"
  /\ pc' = "sev"
  /\ UNCHANGED <<prog, cfg, ovfif, pend, latch, outp, usart, hist, budget>>

\* SCB->SCR |= SCB_SCR_SEVONPEND_Msk
SetSevonpend ==
  /\ pc = "set_sevonpend"
  /\ pc' = "sev"
  /\ sevonpend' = TRUE
  /\ UNCHANGED <<prog, crm, crm_status, clk_en, uien, cen, uen, ovfif, pend,
                 latch, outp, usart, hist, budget>>

\* variant: the signal-event is left out, the wait of the drain stands alone
Sev_Missing ==
  /\ pc = "sev"
  /\ pc' = "drain_wfe"
  /\ UNCHANGED <<prog, cfg, ovfif, pend, latch, outp, usart, hist, budget>>

\* __SEV()
Sev ==
  /\ pc = "sev"
  /\ pc' = "drain_wfe"
  /\ latch' = TRUE
  /\ latch_src' = "sev"
  /\ UNCHANGED <<prog, cfg, ovfif, pend, outp, usart, n_elapse, n_coalesced,
                 ext_post, wakes_true, events_true, woke_src, race,
                 iter_counted, clean, budget, flag_old>>

\* variant: the drain is left out, the latch set by __SEV() stays
DrainWfe_Skip ==
  /\ pc \in {"drain_wfe", "drain_sleep"}
  /\ pc' = "print_system_info"
  /\ UNCHANGED <<prog, cfg, ovfif, pend, latch, outp, usart, hist, budget>>

\* __WFE() of the drain: consumes the latch, or suspends until it is set.
DrainWfe ==
  /\ pc \in {"drain_wfe", "drain_sleep"}
  /\ IF latch
     THEN /\ latch' = FALSE
          /\ latch_src' = "none"
          /\ pc' = "print_system_info"
     ELSE /\ pc = "drain_wfe"
          /\ pc' = "drain_sleep"
          /\ UNCHANGED <<latch, latch_src>>
  /\ UNCHANGED <<prog, cfg, ovfif, pend, outp, usart, n_elapse, n_coalesced,
                 ext_post, wakes_true, events_true, woke_src, race,
                 iter_counted, clean, budget, flag_old>>

\* print_system_info(): the calls of usart_puts and usart_put_uint, as the
\* characters they hand to usart_putchar one after the other.
PrintSystemInfo ==
  /\ pc = "print_system_info"
  /\ txq = <<>>
  /\ txq' = BannerText
  /\ sent' = <<>>
  /\ ubuf' = UintCall(FromInt(PWM_DUTY_RATIO))
  /\ UNCHANGED <<pc, prog, cfg, ovfif, pend, latch, outp, tdbe, hist, budget>>

\* usart_putchar: while (!(USART1->sts & USART_STS_TDBE)) {} USART1->dt = ch.
\* An unclocked USART reads as 0 and never raises TDBE.  The write to dt
\* clears TDBE; after the last character of the calls made at pc control
\* moves on.
Putchar ==
  /\ txq # <<>>
  /\ uen /\ tdbe
  /\ tdbe' = FALSE
  /\ sent' = Append(sent, Head(txq))
  /\ txq' = Tail(txq)
  /\ pc' = (IF Tail(txq) = <<>> THEN AfterTx(pc) ELSE pc)
  /\ UNCHANGED <<prog, cfg, ovfif, pend, latch, outp, ubuf, hist, budget>>

\* the transmitter moves the data register into its shift register and
\* raises TDBE again
UsartShift ==
  /\ uen /\ ~tdbe
  /\ tdbe' = TRUE
  /\ UNCHANGED <<pc, prog, cfg, ovfif, pend, latch, outp, txq, sent, ubuf,
                 hist, budget>>

\* -------------------------------------------------------------- main loop
\* variant: the pending bit is not cleared before the wait
ClearPending_Skip ==
  /\ pc = "clear_pending"
  /\ pc' = "wfe"
  /\ race' = FALSE
  /\ iter_counted' = FALSE
  /\ flag_old' = ovfif
  /\ UNCHANGED <<prog, cfg, ovfif, pend, latch, outp, usart, n_elapse,
                 n_coalesced, ext_post, wakes_true, events_true, latch_src,
                 woke_src, clean, budget>>

\* NVIC_ClearPendingIRQ(TMR14_GLOBAL_IRQn)
ClearPending ==
  /\ pc = "clear_pending"
  /\ pc' = "wfe"
  /\ pend' = FALSE
  /\ race' = FALSE
  /\ iter_counted' = FALSE
  /\ flag_old' = ovfif
  /\ UNCHANGED <<prog, cfg, ovfif, latch, outp, usart, n_elapse, n_coalesced,
                 ext_post, wakes_true, events_true, latch_src, woke_src,
                 clean, budget>>

\* variant: the wait discards a latch set before it and always suspends
Wfe_ClearsFirst ==
  /\ pc \in {"wfe", "wfe_sleep"}
  /\ IF pc = "wfe"
     THEN /\ latch' = FALSE
          /\ latch_src' = "none"
          /\ pc' = "wfe_sleep"
          /\ UNCHANGED <<woke_src, wakes_true>>
     ELSE /\ latch
          /\ latch' = FALSE
          /\ latch_src' = "none"
          /\ woke_src' = latch_src
          /\ wakes_true' = BAdd(wakes_true, One)
          /\ pc' = "inc_wake"
  /\ UNCHANGED <<prog, cfg, ovfif, pend, outp, usart, n_elapse, n_coalesced,
                 ext_post, events_true, race, iter_counted, clean, budget,
                 flag_old>>

\* __WFE(): latch set -> clear it and continue; otherwise suspend until it
\* is set, then clear it and continue.
Wfe ==
  /\ pc \in {"wfe", "wfe_sleep"}
  /\ IF latch
     THEN /\ latch' = FALSE
          /\ latch_src' = "none"
          /\ woke_src' = latch_src
          /\ wakes_true' = BAdd(wakes_true, One)
          /\ pc' = "inc_wake"
     ELSE /\ pc = "wfe"
          /\ pc' = "wfe_sleep"
          /\ UNCHANGED <<latch, latch_src, woke_src, wakes_true>>
  /\ UNCHANGED <<prog, cfg, ovfif, pend, outp, usart, n_elapse, n_coalesced,
                 ext_post, events_true, race, iter_counted, clean, budget,
                 flag_old>>

\* variant: the wake is counted only in the branch of a spurious wake
IncWake_OnlySpurious ==
  /\ pc = "inc_wake"
  /\ pc' = "check"
  /\ wfe_wake_count' = (IF ovfif THEN wfe_wake_count
                        ELSE Add32(wfe_wake_count, One))
  /\ UNCHANGED <<timer_overflow_count, last_print_time, current_time, cfg,
                 ovfif, pend, latch, outp, usart, hist, budget>>

\* wfe_wake_count++
IncWake ==
  /\ pc = "inc_wake"
  /\ pc' = "check"
  /\ wfe_wake_count' = Add32(wfe_wake_count, One)
  /\ UNCHANGED <<timer_overflow_count, last_print_time, current_time, cfg,
                 ovfif, pend, latch, outp, usart, hist, budget>>

\* variant: the source of the wake is not confirmed
Check_NoConfirm ==
  /\ pc = "check"
  /\ pc' = "clear_flag"
  /\ UNCHANGED <<prog, cfg, ovfif, pend, latch, outp, usart, hist, budget>>

\* variant: the test of the flag is inverted
Check_Inverted ==
  /\ pc = "check"
  /\ pc' = (IF ~ovfif THEN "clear_flag" ELSE "clear_pending")
  /\ UNCHANGED <<prog, cfg, ovfif, pend, latch, outp, usart, hist, budget>>

\* variant: the test polls the flag until it is set
Check_Poll ==
  /\ pc = "check"
  /\ ovfif
  /\ pc' = "clear_flag"
  /\ UNCHANGED <<prog, cfg, ovfif, pend, latch, outp, usart, hist, budget>>

\* if (TMR14->ists & TMR_ISTS_OVFIF)
Check ==
  /\ pc = "check"
  /\ pc' = (IF ovfif THEN "clear_flag" ELSE "clear_pending")
  /\ UNCHANGED <<prog, cfg, ovfif, pend, latch, outp, usart, hist, budget>>

\* TMR14->ists &= ~TMR_ISTS_OVFIF: the value stored has bit 0 clear whatever
\* was loaded, so the load and the store are one step for this bit.
ClearFlag ==
  /\ pc = "clear_flag"
  /\ pc' = "inc_overflow"
  /\ ovfif' = FALSE
  /\ flag_old' = FALSE
  /\ UNCHANGED <<prog, cfg, pend, latch, outp, usart, n_elapse, n_coalesced, ext_post, wakes_true,
                 events_true, latch_src, woke_src, race, iter_counted, clean, budget>>

\* timer_overflow_count++
IncOverflow ==
  /\ pc = "inc_overflow"
  /\ pc' = "print_check"
  /\ timer_overflow_count' = Add32(timer_overflow_count, One)
  /\ events_true' = BAdd(events_true, One)
  /\ iter_counted' = TRUE
  /\ UNCHANGED <<wfe_wake_count, last_print_time, current_time, cfg, ovfif,
                 pend, latch, outp, usart, n_elapse, n_coalesced, ext_post,
                 wakes_true, latch_src, woke_src, race, clean, budget,
                 flag_old>>

\* ----------------------------------------------------- print_runtime_stats
\* current_time = timer_overflow_count; if ((current_time - last) >= 5)
PrintCheck ==
  /\ pc = "print_check"
  /\ current_time' = timer_overflow_count
  /\ pc' = (IF ShouldPrint(timer_overflow_count, last_print_time)
            THEN "print_events" ELSE "clear_pending")
  /\ UNCHANGED <<timer_overflow_count, wfe_wake_count, last_print_time, cfg,
                 ovfif, pend, latch, outp, usart, hist, budget>>

\* usart_puts("TMR Events: "); usart_put_uint(timer_overflow_count)
PrintEvents ==
  /\ pc = "print_events"
  /\ txq = <<>>
  /\ txq' = STR_EVENTS \o UintText(timer_overflow_count)
  /\ sent' = <<>>
  /\ ubuf' = UintCall(timer_overflow_count)
  /\ line' = <<<<"TMR Events", timer_overflow_count>>>>
  /\ UNCHANGED <<pc, prog, cfg, ovfif, pend, latch, out, n_reports, last_true,
                 tdbe, hist, budget>>

\* usart_puts(", WFE Wakes: "); usart_put_uint(wfe_wake_count)
PrintWakes ==
  /\ pc = "print_wakes"
  /\ txq = <<>>
  /\ txq' = STR_WAKES \o UintText(wfe_wake_count)
  /\ sent' = <<>>
  /\ ubuf' = UintCall(wfe_wake_count)
  /\ line' = Append(line, <<"WFE Wakes", wfe_wake_count>>)
  /\ UNCHANGED <<pc, prog, cfg, ovfif, pend, latch, out, n_reports, last_true,
                 tdbe, hist, budget>>

\* if (wfe_wake_count > 0) { efficiency = ...; puts; put_uint; puts("%") }
\* A division by zero would end in the fault handler.
PrintEff ==
  /\ pc = "print_eff"
  /\ txq = <<>>
  /\ IF HasEfficiency(wfe_wake_count)
     THEN IF wfe_wake_count = Zero
          THEN /\ pc' = "hard_fault"
               /\ UNCHANGED <<line, txq, sent, ubuf>>
          ELSE LET efficiency == Efficiency(timer_overflow_count,
                                            wfe_wake_count)
               IN /\ txq' = STR_EFFICIENCY \o UintText(efficiency)
                             \o STR_PERCENT
                  /\ sent' = <<>>
                  /\ ubuf' = UintCall(efficiency)
                  /\ line' = Append(line, <<"Efficiency", efficiency>>)
                  /\ UNCHANGED pc
     ELSE /\ pc' = "print_end"
          /\ UNCHANGED <<line, txq, sent, ubuf>>
  /\ UNCHANGED <<prog, cfg, ovfif, pend, latch, out, n_reports, last_true,
                 tdbe, hist, budget>>

\* usart_puts("\r\n")
PrintEnd ==
  /\ pc = "print_end"
  /\ txq = <<>>
  /\ txq' = STR_EOL
  /\ sent' = <<>>
  /\ UNCHANGED <<pc, prog, cfg, ovfif, pend, latch, outp, tdbe, ubuf, hist,
                 budget>>

\* variant: the statistics start afresh after every report
PrintMark_ResetCounters ==
  /\ pc = "print_mark"
  /\ pc' = "clear_pending"
  /\ out' = line
  /\ line' = <<>>
  /\ n_reports' = BAdd(n_reports, One)
  /\ last_true' = events_true
  /\ last_print_time' = Zero
  /\ timer_overflow_count' = Zero
  /\ wfe_wake_count' = Zero
  /\ UNCHANGED <<current_time, cfg, ovfif, pend, latch, usart, hist, budget>>

\* variant: the marker is left as it was
PrintMark_NoUpdate ==
  /\ pc = "print_mark"
  /\ pc' = "clear_pending"
  /\ out' = line
  /\ line' = <<>>
  /\ n_reports' = BAdd(n_reports, One)
  /\ last_true' = events_true
  /\ UNCHANGED <<prog, cfg, ovfif, pend, latch, usart, hist, budget>>

\* last_print_time = current_time
PrintMark ==
  /\ pc = "print_mark"
  /\ pc' = "clear_pending"
  /\ out' = line
  /\ line' = <<>>
  /\ n_reports' = BAdd(n_reports, One)
  /\ last_true' = events_true
  /\ last_print_time' = current_time
  /\ UNCHANGED <<timer_overflow_count, wfe_wake_count, current_time, cfg,
                 ovfif, pend, latch, usart, hist, budget>>

\* ------------------------------------------------------------ fast forward
\* The loop is asleep with nothing outstanding.
Quiet ==
  /\ pc = "wfe_sleep"
  /\ ~latch /\ ~ovfif /\ ~pend
  /\ TimerRunning /\ uien /\ sevonpend /\ uen
  /\ txq = <<>> /\ tdbe

\* n iterations of the loop at once, each of them: the period elapses while
\* the loop sleeps (Elapse), the loop wakes (Wfe), counts the wake (IncWake),
\* sees and clears OVFIF (Check, ClearFlag), counts the event (IncOverflow),
\* runs the reporter (PrintCheck .. PrintEnd), clears the pending bit
\* (ClearPending) and suspends again (Wfe).  The step ends in the state those
\* n iterations end in: it exists to reach counter values that single steps
\* reach only after 2^32 iterations.
FastForwardSizes == {FromInt(JumpMul), BSub(<<LIMB, 0>>, FromInt(WrapBack))}
FastForwardGenuine ==
  /\ Quiet
  /\ jumps < MaxJumps
  /\ \E n \in FastForwardSizes :
       LET d == Sub32(timer_overflow_count, last_print_time)
           \* reports in these n iterations, and the iteration of the last
           r == BDivS(BAdd(d, n), REPORT_INTERVAL)
           j == BSub(n, <<0, BModS(BAdd(d, n), REPORT_INTERVAL)>>)
       IN /\ BLt(d, FromInt(REPORT_INTERVAL))
          /\ timer_overflow_count' = Add32(timer_overflow_count, n)
          /\ wfe_wake_count' = Add32(wfe_wake_count, n)
          /\ current_time' = Add32(timer_overflow_count, n)
          /\ last_print_time' = (IF r # Zero THEN Add32(timer_overflow_count, j)
                                 ELSE last_print_time)
          /\ out' = (IF r # Zero
                     THEN ReportLine(Add32(timer_overflow_count, j),
                                     Add32(wfe_wake_count, j))
                     ELSE out)
          /\ n_reports' = BAdd(n_reports, r)
          /\ sent' = (IF r # Zero THEN STR_EOL ELSE sent)
          /\ ubuf' = (IF r # Zero
                      THEN LET t == Add32(timer_overflow_count, j)
                               w == Add32(wfe_wake_count, j)
                           IN UintCall(IF HasEfficiency(w)
                                       THEN Efficiency(t, w) ELSE w)
                      ELSE ubuf)
          /\ last_true' = (IF r # Zero THEN BAdd(events_true, j) ELSE last_true)
          /\ n_elapse' = BAdd(n_elapse, n)
          /\ wakes_true' = BAdd(wakes_true, n)
          /\ events_true' = BAdd(events_true, n)
  /\ woke_src' = "tmr_post"
  /\ jumps' = jumps + 1
  /\ UNCHANGED <<pc, cfg, ovfif, pend, latch, line, tdbe, txq, n_coalesced,
                 ext_post, latch_src, race, iter_counted, clean, e_steps,
                 x_steps, flag_old>>

\* m iterations of the loop at once, each of them a spurious wake: a foreign
\* event sets the latch while the loop sleeps (ExternalEvent), the loop wakes
\* (Wfe), counts the wake (IncWake), finds OVFIF clear (Check), clears the
\* pending bit (ClearPending) and suspends again (Wfe).
FastForwardSpurious ==
  /\ Quiet
  /\ jumps < MaxJumps
  /\ \E m \in {BSub(<<LIMB, 0>>, FromInt(SpuriousBack))} :
       /\ wfe_wake_count' = Add32(wfe_wake_count, m)
       /\ wakes_true' = BAdd(wakes_true, m)
       /\ ext_post' = TRUE
  /\ woke_src' = "ext_post"
  /\ clean' = FALSE
  /\ jumps' = jumps + 1
  /\ UNCHANGED <<pc, timer_overflow_count, last_print_time, current_time, cfg,
                 ovfif, pend, latch, outp, usart, n_elapse, n_coalesced, events_true,
                 latch_src, race, iter_counted, e_steps, x_steps, flag_old>>

\* ---------------------------------------------------------- specification
Next ==
  \/ Elapse
  \/ ExternalEvent
  \/ CrmConfig
  \/ GpioConfig
  \/ TimerConfig
  \/ UsartConfig
  \/ SetSevonpend
  \/ Sev
  \/ DrainWfe
  \/ PrintSystemInfo
  \/ Putchar
  \/ UsartShift
  \/ ClearPending
  \/ Wfe
  \/ IncWake
  \/ Check
  \/ ClearFlag
  \/ IncOverflow
  \/ PrintCheck
  \/ PrintEvents
  \/ PrintWakes
  \/ PrintEff
  \/ PrintEnd
  \/ PrintMark
  \/ FastForwardGenuine
  \/ FastForwardSpurious

Spec == Init /\ [][Next]_vars

\* ------------------------------------------------------------ fault handler
\* A hard fault is taken at some point of the program: control enters
\* HardFault_Handler and whatever call was running is abandoned.
Fault ==
  /\ ~(pc \in FaultPcs)
  /\ pc' = "hard_fault"
  /\ txq' = <<>>
  /\ UNCHANGED <<prog, cfg, ovfif, pend, latch, outp, tdbe, sent, ubuf, hist,
                 budget>>

\* usart_puts("\r\n*** HARD FAULT! ***\r\nSystem Halted.\r\n")
HardFault_Handler ==
  /\ pc = "hard_fault"
  /\ txq = <<>>
  /\ txq' = STR_HARD_FAULT
  /\ sent' = <<>>
  /\ UNCHANGED <<pc, prog, cfg, ovfif, pend, latch, outp, tdbe, ubuf, hist,
                 budget>>

\* variant: the handler returns to the main loop instead of halting
HaltLoop_Returns ==
  /\ pc = "halt"
  /\ pc' = "clear_pending"
  /\ UNCHANGED <<prog, cfg, ovfif, pend, latch, outp, usart, hist, budget>>

\* while (1)
HaltLoop ==
  /\ pc = "halt"
  /\ pc' = "halt_nop"
  /\ UNCHANGED <<prog, cfg, ovfif, pend, latch, outp, usart, hist, budget>>

\* __NOP()
Nop ==
  /\ pc = "halt_nop"
  /\ pc' = "halt"
  /\ UNCHANGED <<prog, cfg, ovfif, pend, latch, outp, usart, hist, budget>>

\* The steps of the one control flow.  The core executes its next
\* instruction whenever it is not suspended; the timer keeps counting and
\* the transmitter keeps shifting.  A foreign event need never come.
ProgStep ==
  \/ CrmConfig \/ GpioConfig \/ TimerConfig \/ UsartConfig \/ SetSevonpend
  \/ Sev \/ DrainWfe \/ PrintSystemInfo \/ Putchar
  \/ ClearPending \/ Wfe \/ IncWake \/ Check \/ ClearFlag \/ IncOverflow
  \/ PrintCheck \/ PrintEvents \/ PrintWakes \/ PrintEff \/ PrintEnd
  \/ PrintMark
\* ---------------------------------------------------- usart_put_uint alone
RECURSIVE PowRadix(_)
PowRadix(k) == IF k = 0 THEN One ELSE BMulS(PowRadix(k - 1), RADIX)
UintSamples ==
  {FromInt(n) : n \in 0 .. MaxSmall}
    \cup {Wrap32(PowRadix(k)) : k \in 1 .. MaxPow}
    \cup {Wrap32(BSub(PowRadix(k), One)) : k \in 1 .. MaxPow}
    \cup {<<0, LIMB - 1>>, <<1, 0>>, <<LIMB \div 2, 0>>,
          <<LIMB - 1, LIMB - 2>>, <<LIMB - 1, LIMB - 1>>}

\* a call usart_put_uint(value) on the configured USART
InitUint ==
  /\ pc = "put_uint"
  /\ ubuf \in {[value |-> v, ptr |-> BUF_SIZE - 1] : v \in UintSamples}
  /\ timer_overflow_count = Zero
  /\ wfe_wake_count = Zero
  /\ last_print_time = Zero
  /\ current_time = Zero
  /\ crm_status = "CRM_OK"
  /\ clk_en = TRUE
  /\ hext = FALSE
  /\ timeout = 0
  /\ polls = 0
  /\ crm_ctrl = {"PLLEN", "PLLSTBL"}
  /\ crm_cfg = PllCfg(FALSE) \cup {"SCLKSEL_PLL", "SCLKSTS_PLL"}
  /\ crm_misc2 = {}
  /\ flash_psr = FlashFast
  /\ uien = FALSE
  /\ cen = FALSE
  /\ uen = TRUE
  /\ ovfif = FALSE
  /\ pend = FALSE
  /\ latch = FALSE
  /\ sevonpend = FALSE
  /\ line = <<>>
  /\ out = <<>>
  /\ tdbe = TRUE
  /\ txq = <<>>
  /\ sent = <<>>
  /\ n_elapse = Zero
  /\ n_coalesced = 0
  /\ ext_post = FALSE
  /\ wakes_true = Zero
  /\ events_true = Zero
  /\ n_reports = Zero
  /\ last_true = Zero
  /\ latch_src = "none"
  /\ woke_src = "none"
  /\ race = FALSE
  /\ iter_counted = FALSE
  /\ clean = TRUE
  /\ flag_old = FALSE
  /\ e_steps = 0
  /\ x_steps = 0
  /\ jumps = 0

\* usart_put_uint(value): the conversion into buffer, then usart_puts(ptr)
PutUint ==
  /\ pc = "put_uint"
  /\ txq = <<>>
  /\ LET conv == PutUintConv(ubuf.value)
     IN /\ txq' = conv.text
        /\ ubuf' = [value |-> ubuf.value, ptr |-> conv.ptr]
        /\ pc' = (IF conv.text = <<>> THEN AfterTx(pc) ELSE pc)
  /\ sent' = <<>>
  /\ UNCHANGED <<prog, cfg, ovfif, pend, latch, outp, tdbe, hist, budget>>

NextUint == PutUint \/ Putchar \/ UsartShift
SpecUint == InitUint /\ [][NextUint]_vars

\* ---------------------------------------------------- crm_config alone
\* a call of crm_config() after reset, in either build, poll by poll
InitCrm ==
  /\ pc = "crm_config"
  /\ hext \in BOOLEAN
  /\ timer_overflow_count = Zero
  /\ wfe_wake_count = Zero
  /\ last_print_time = Zero
  /\ current_time = Zero
  /\ crm_status = "none"
  /\ clk_en = FALSE
  /\ timeout = 0
  /\ polls = 0
  /\ crm_ctrl = {}
  /\ crm_cfg = {}
  /\ crm_misc2 = {}
  /\ flash_psr = {}
  /\ uien = FALSE
  /\ cen = FALSE
  /\ uen = FALSE
  /\ ovfif = FALSE
  /\ pend = FALSE
  /\ latch = FALSE
  /\ sevonpend = FALSE
  /\ line = <<>>
  /\ out = <<>>
  /\ tdbe = TRUE
  /\ txq = <<>>
  /\ sent = <<>>
  /\ ubuf = [value |-> Zero, ptr |-> BUF_SIZE - 1]
  /\ n_elapse = Zero
  /\ n_coalesced = 0
  /\ ext_post = FALSE
  /\ wakes_true = Zero
  /\ events_true = Zero
  /\ n_reports = Zero
  /\ last_true = Zero
  /\ latch_src = "none"
  /\ woke_src = "none"
  /\ race = FALSE
  /\ iter_counted = FALSE
  /\ clean = TRUE
  /\ flag_old = FALSE
  /\ e_steps = 0
  /\ x_steps = 0
  /\ jumps = 0

CrmStep == CrmEnter \/ CrmHextPoll \/ CrmPllPoll \/ CrmSwitchPoll
NextCrm == CrmStep \/ HextStable \/ PllStable \/ SclkSwitch
\* the core keeps executing; the clock hardware is under no obligation
SpecCrm == InitCrm /\ [][NextCrm]_vars /\ WF_vars(CrmStep)

\* the single steps of the program with a hard fault at any point
ElapseFault == e_steps < FaultElapses /\ Elapse
NextFault ==
  \/ ElapseFault \/ ExternalEvent \/ UsartShift \/ ProgStep
  \/ Fault \/ HardFault_Handler \/ HaltLoop \/ Nop
SpecFault == Init /\ [][NextFault]_vars

\* the single steps alone, without the summaries of many iterations, and
\* with a shorter supply of periods
ElapseLive == e_steps < LiveElapses /\ Elapse
NextLive == ElapseLive \/ ExternalEvent \/ UsartShift \/ ProgStep
SpecFair ==
  /\ Init /\ [][NextLive]_vars
  /\ WF_vars(ProgStep)
  /\ WF_vars(ElapseLive)
  /\ WF_vars(UsartShift)

TypeOK ==
  /\ pc \in Pcs
  /\ IsU32(timer_overflow_count)
  /\ IsU32(wfe_wake_count)
  /\ IsU32(last_print_time)
  /\ IsU32(current_time)
  /\ tdbe \in BOOLEAN
  /\ flag_old \in BOOLEAN
  /\ hext \in BOOLEAN
  /\ timeout \in 0 .. CRM_PLL_TIMEOUT
  /\ polls \in 0 .. (CRM_PLL_TIMEOUT - 1)
  /\ Len(txq) <= Len(BannerText)
  /\ IsU32(ubuf.value) /\ ubuf.ptr \in 0 .. (BUF_SIZE - 1)

\* ------------------------------------------------------------- properties
Max32 == <<LIMB - 1, LIMB - 1>>
AtWfe == pc \in {"wfe", "wfe_sleep"}
\* executions of wfe_wake_count++ so far, unwrapped
WakesCounted == IF pc = "inc_wake" THEN BSub(wakes_true, One) ELSE wakes_true

\* C1 (as stated): whenever the loop is at WFE with the status flag clear,
\* timer_overflow_count equals, modulo 2^32, the number of period elapses
\* since the timer was started.
C1_NoEventMissed ==
  (AtWfe /\ ~ovfif) => timer_overflow_count = Wrap32(n_elapse)

\* C1 (amended): no elapse is counted twice and an elapse is lost only by
\* coalescing: whenever the loop is at WFE with the status flag clear, the
\* number of confirmed events is the number of elapses minus those that
\* found the status flag still set, and timer_overflow_count is that number
\* modulo 2^32.
C1_CountsUncoalesced ==
  (AtWfe /\ ~ovfif) =>
     /\ events_true = BSub(n_elapse, <<0, n_coalesced>>)
     /\ timer_overflow_count = Wrap32(events_true)

C1_Witness ==
  /\ pc = "wfe_sleep" /\ ~ovfif
  /\ n_coalesced >= 1
  /\ BLe(<<0, 2>>, events_true)

\* C2 (as stated): N elapses, each while the loop is suspended, nothing else
\* setting the latch after the drain: after N iterations both counters are N.
C2_ExactN ==
  (clean /\ pc = "clear_pending" /\ wakes_true = n_elapse) =>
     /\ timer_overflow_count = n_elapse
     /\ wfe_wake_count = n_elapse

\* C2 (amended): under the same conditions both counters are N modulo 2^32.
C2_ExactNMod ==
  (clean /\ pc = "clear_pending" /\ wakes_true = n_elapse) =>
     /\ timer_overflow_count = Wrap32(n_elapse)
     /\ wfe_wake_count = Wrap32(n_elapse)
     /\ events_true = n_elapse

C2_Witness ==
  /\ clean /\ pc = "clear_pending"
  /\ wakes_true = n_elapse
  /\ BLe(<<0, 2>>, n_elapse)
  /\ e_steps >= 2

\* C3 (as stated): wfe_wake_count >= timer_overflow_count in every state.
C3_WakeGeOverflow == BLe(timer_overflow_count, wfe_wake_count)

\* C3 (amended): the unwrapped number of counted wakes is never less than the
\* unwrapped number of counted events, each counter is its unwrapped number
\* modulo 2^32, and wfe_wake_count >= timer_overflow_count holds as long as
\* fewer than 2^32 wakes have been counted.
C3_TrueWakeGeOverflow ==
  /\ BLe(events_true, WakesCounted)
  /\ timer_overflow_count = Wrap32(events_true)
  /\ wfe_wake_count = Wrap32(WakesCounted)
  /\ BLt(WakesCounted, <<LIMB, 0>>) =>
       BLe(timer_overflow_count, wfe_wake_count)

C3_Witness ==
  /\ pc = "check"
  /\ BLt(events_true, WakesCounted)
  /\ BLe(<<0, 2>>, events_true)
  /\ BLt(timer_overflow_count, wfe_wake_count)

\* the efficiency field of a line, if it has one
HasEffField(l) == Len(l) = 3
EffField(l) == l[3][2]
\* e = floor(100 * t / w) for uint32_t t and w > 0, over the naturals
IsFloorPercent(e, t, w) ==
  /\ e[1] = 0
  /\ BLe(BMulS(w, e[2]), BMulS(t, PERCENT))
  /\ BLt(BMulS(t, PERCENT), BMulS(w, e[2] + 1))

\* C4 (as stated): in every report with wfe_wake_count > 0 the efficiency
\* printed is floor(100 * timer_overflow_count / wfe_wake_count) over the
\* naturals and lies in 0..100.
C4_EfficiencyExact ==
  (pc = "print_end" /\ HasEffField(line)) =>
     /\ BLe(EffField(line), FromInt(PERCENT))
     /\ IsFloorPercent(EffField(line), timer_overflow_count, wfe_wake_count)

\* C5 (as stated): print_runtime_stats emits a report exactly when
\* timer_overflow_count is a positive multiple of 5, and a report always
\* moves the last-report marker to a new value.
C5_ReportOnMultiples ==
  [][ /\ (pc = "print_check" /\ pc' # pc) =>
           ((pc' = "print_events") <=>
              (timer_overflow_count # Zero
                 /\ BModS(timer_overflow_count, REPORT_INTERVAL) = 0))
      /\ (pc = "print_mark" /\ pc' # pc) =>
           last_print_time' # last_print_time ]_vars

\* C5 (amended): print_runtime_stats emits a report exactly when the
\* unwrapped number of confirmed events is a positive multiple of 5 (the
\* value of timer_overflow_count is such a multiple only until it wraps); a
\* report always moves the last-report marker to a new value, and outside
\* the reporter the number of reports is the number of confirmed events
\* divided by 5.
C5_ReportOnTrueMultiples ==
  [][ /\ (pc = "print_check" /\ pc' # pc) =>
           ((pc' = "print_events") <=>
              (events_true # Zero
                 /\ BModS(events_true, REPORT_INTERVAL) = 0))
      /\ (pc = "print_mark" /\ pc' # pc) =>
           last_print_time' # last_print_time
      /\ (pc' \notin PrintPcs) =>
           n_reports' = BDivS(events_true', REPORT_INTERVAL) ]_vars

C5_Witness ==
  /\ pc = "print_events"
  /\ e_steps >= 5
  /\ BModS(events_true, REPORT_INTERVAL) = 0

\* the shape of one report line
ReportShape(l) ==
  /\ Len(l) \in {2, 3}
  /\ l[1][1] = "TMR Events"
  /\ l[2][1] = "WFE Wakes"
  /\ HasEffField(l) <=> (l[2][2] # Zero)
  /\ HasEffField(l) => l[3][1] = "Efficiency"

\* C6: print_runtime_stats never divides by zero: a report line always holds
\* the event count and the wake count, it holds the efficiency field exactly
\* when the wake count it printed is not zero, and the fault state is never
\* entered.
C6_NoDivisionByZero ==
  /\ pc # "hard_fault"
  /\ out # <<>> => ReportShape(out)
  /\ pc = "print_end" => ReportShape(line)

C6_Witness ==
  /\ pc = "clear_pending"
  /\ Len(out) = 2
  /\ out[2][2] = Zero
  /\ wfe_wake_count = Zero
  /\ e_steps >= 1

\* C7: a period that elapses after NVIC_ClearPendingIRQ and before WFE sets
\* the latch, that WFE does not suspend, and the same iteration finds the
\* status flag set and counts the event.
C7_RaceNotDropped ==
  race =>
     /\ pc # "wfe_sleep"
     /\ pc = "wfe" => latch
     /\ pc \in {"wfe", "inc_wake", "check"} => ovfif
     /\ pc = "clear_pending" => iter_counted

C7_Witness == race /\ pc = "clear_pending" /\ iter_counted

\* C8: no main-loop WFE returns on a latch that was set before the drain
\* completed; without a foreign event after the drain, a main-loop WFE has
\* returned only if a period has elapsed, on the latch the timer set.
C8_DrainConsumesStale ==
  /\ (PostDrain /\ latch) => latch_src \in {"tmr_post", "ext_post"}
  /\ (wakes_true # Zero) =>
       /\ woke_src \in {"tmr_post", "ext_post"}
       /\ ~ext_post => (woke_src = "tmr_post" /\ n_elapse # Zero)

C8_Witness ==
  /\ pc = "inc_wake"
  /\ wakes_true = One
  /\ woke_src = "tmr_post"
  /\ ~ext_post

\* C9: when nothing but the timer sets the latch after the drain, every
\* return of WFE in the main loop finds the status flag set, and the two
\* counters are equal at the end of every iteration.
C9_NoSpuriousByProtocol ==
  ~ext_post =>
     /\ pc \in {"inc_wake", "check"} => ovfif
     /\ pc = "clear_pending" => wfe_wake_count = timer_overflow_count

C9_Witness ==
  /\ ~ext_post
  /\ pc = "check"
  /\ n_coalesced >= 1
  /\ BLe(<<0, 2>>, wakes_true)

\* C10: incrementing a counter past the largest 32-bit value makes it 0 and
\* the loop goes on, and a report is emitted exactly when 5 events have been
\* confirmed since the last report, also across the wrap of
\* timer_overflow_count.
C10_WrapHarmless ==
  [][ /\ (pc = "inc_wake" /\ pc' # pc) =>
           /\ pc' = "check"
           /\ wfe_wake_count' = (IF wfe_wake_count = Max32 THEN Zero
                                 ELSE BAdd(wfe_wake_count, One))
      /\ (pc = "inc_overflow" /\ pc' # pc) =>
           /\ pc' = "print_check"
           /\ timer_overflow_count' = (IF timer_overflow_count = Max32 THEN Zero
                                       ELSE BAdd(timer_overflow_count, One))
      /\ (pc = "print_check" /\ pc' # pc) =>
           /\ (pc' = "print_events") <=>
                 (BSub(events_true, last_true) = FromInt(REPORT_INTERVAL))
           /\ BLe(BSub(events_true, last_true), FromInt(REPORT_INTERVAL)) ]_vars

C10_Witness ==
  /\ pc = "print_events"
  /\ BLt(timer_overflow_count, last_print_time)
  /\ BLt(<<LIMB, 0>>, events_true)

\* the loop sleeps and the periods this model supplies are used up
Starved == pc = "wfe_sleep" /\ ~latch /\ e_steps = LiveElapses

\* C11: with the timer elapsing again and the transmitter accepting every
\* byte, every suspended main-loop WFE returns, and every state with the
\* status flag set is followed by the loop clearing the flag and counting
\* the event (it arrives at the reporter call after timer_overflow_count++),
\* unless the supply of periods ends with the loop asleep.
C11_LoopLive ==
  /\ (pc = "wfe_sleep" /\ e_steps < LiveElapses) ~> (pc = "inc_wake")
  /\ ovfif ~> ((pc = "print_check" /\ iter_counted) \/ Starved)

C11_Witness ==
  /\ pc = "print_check" /\ iter_counted
  /\ woke_src = "tmr_post"
  /\ BLe(<<0, 2>>, n_elapse)
  /\ e_steps >= 2

\* C12: a spurious wake (WFE returns, OVFIF is read clear) changes nothing
\* but wfe_wake_count, which grows by one: the return of WFE and the check
\* leave both counters, the marker, the status flag and all output alone,
\* the increment adds one and leaves the rest alone, the reporter is not
\* entered and control returns to the pending clear.
C12_SpuriousWakeFrame ==
  [][ /\ (AtWfe /\ pc' = "inc_wake") =>
           UNCHANGED <<prog, ovfif, outp, usart>>
      /\ (pc = "inc_wake" /\ pc' # pc) =>
           /\ pc' = "check"
           /\ wfe_wake_count' = Add32(wfe_wake_count, One)
           /\ UNCHANGED <<timer_overflow_count, last_print_time, ovfif, outp,
                          usart>>
      /\ (pc = "check" /\ ~ovfif /\ pc' # pc) =>
           /\ pc' = "clear_pending"
           /\ UNCHANGED <<prog, ovfif, outp, usart>> ]_vars

C12_Witness ==
  /\ pc = "clear_pending"
  /\ woke_src = "ext_post" /\ ~iter_counted /\ ~ovfif
  /\ BLt(events_true, wakes_true)
  /\ wfe_wake_count # Zero

\* C13: every return of a main-loop WFE is followed by wfe_wake_count++,
\* before the check and whatever it finds; with OVFIF seen set the iteration
\* clears the flag, then adds one to timer_overflow_count, then enters the
\* reporter, each once: the counters change in no other single step and
\* the reporter is entered from nowhere else and left to the pending clear.
C13_IterationOrder ==
  [][ /\ (AtWfe /\ ~(pc' \in {"wfe", "wfe_sleep"})) => pc' = "inc_wake"
      /\ (pc = "inc_wake" /\ pc' # pc) =>
           /\ pc' = "check"
           /\ wfe_wake_count' = Add32(wfe_wake_count, One)
      /\ (pc = "check" /\ pc' # pc) =>
           pc' = (IF ovfif THEN "clear_flag" ELSE "clear_pending")
      /\ (pc = "clear_flag" /\ pc' # pc) =>
           /\ pc' = "inc_overflow"
           /\ ~ovfif'
           /\ timer_overflow_count' = timer_overflow_count
      /\ (pc = "inc_overflow" /\ pc' # pc) =>
           /\ pc' = "print_check"
           /\ timer_overflow_count' = Add32(timer_overflow_count, One)
      /\ (pc' # pc /\ wfe_wake_count' # wfe_wake_count) => pc = "inc_wake"
      /\ (pc' # pc /\ timer_overflow_count' # timer_overflow_count) =>
           pc = "inc_overflow"
      /\ (pc' = "print_check" /\ pc' # pc) => pc = "inc_overflow"
      /\ (pc \in PrintPcs /\ ~(pc' \in PrintPcs)) => pc' = "clear_pending"
    ]_vars

C13_Witness ==
  /\ pc = "clear_pending" /\ iter_counted
  /\ wfe_wake_count = One /\ timer_overflow_count = One
  /\ woke_src = "tmr_post"

\* C14: whatever the latch was at reset, the drain of system_init does not
\* suspend and leaves the latch clear: __SEV() sets the latch, the __WFE()
\* after it finds it set, clears it and returns, and neither step changes
\* a counter, the status flag or the output.
C14_DrainReturns ==
  [][ /\ (pc = "sev" /\ pc' # pc) =>
           /\ pc' = "drain_wfe" /\ latch'
           /\ UNCHANGED <<prog, ovfif, outp, usart>>
      /\ (pc = "drain_wfe" /\ pc' # pc) =>
           /\ pc' = "print_system_info" /\ ~latch'
           /\ UNCHANGED <<prog, ovfif, outp, usart>>
      /\ pc' # "drain_sleep" ]_vars

C14_Witness ==
  /\ pc = "print_system_info" /\ txq = <<>>
  /\ ~latch /\ ovfif
  /\ timer_overflow_count = Zero /\ wfe_wake_count = Zero

\* C15 (as stated): at every point of the main loop other than the suspended
\* WFE the next step of the program can be taken at once, the calls of the
\* byte-output sink included.
C15_OnlyWfeWaits ==
  (pc \in LoopPcs /\ pc # "wfe_sleep") => ENABLED ProgStep

\* C15 (amended): the main loop can wait at two points only: suspended in
\* WFE with the latch clear, and in usart_putchar while the transmit data
\* register is still full.  The second wait needs no periodic event: the
\* transmitter ends it by itself.  Every other step can be taken at once.
C15_WaitPoints ==
  pc \in LoopPcs =>
     \/ pc = "wfe_sleep" /\ ~latch
     \/ pc \in PrintPcs /\ txq # <<>> /\ ~tdbe /\ ENABLED UsartShift
     \/ ENABLED ProgStep

C15_Witness ==
  /\ pc = "print_wakes"
  /\ txq # <<>> /\ sent # <<>> /\ ~tdbe
  /\ ~ENABLED ProgStep

\* the configuration calls of system_init and the write that follows them
PreSevPcs == {"crm_config", "gpio_config", "timer_config", "usart_config",
              "set_sevonpend"}

\* C16: SEVONPEND is clear until the four configuration calls have
\* returned, is set by the next statement, before __SEV() and the drain, is
\* set in every state of the main loop, and no step clears it again.
C16_SevonpendSetOnce ==
  [][ /\ sevonpend <=> ~(pc \in PreSevPcs)
      /\ sevonpend' <=> ~(pc' \in PreSevPcs)
      /\ pc' \in LoopPcs => sevonpend'
      /\ sevonpend => sevonpend' ]_vars

C16_Witness ==
  /\ pc = "wfe_sleep" /\ sevonpend
  /\ latch /\ latch_src = "tmr_post"
  /\ crm_status = "CRM_OK"

\* C17: once HardFault_Handler is entered control stays in it; its message
\* goes out once, in order, and is complete when the halt loop is reached;
\* no step changes a counter, the marker or the record of reports, and the
\* steps of the handler leave the timer flag, the pending bit, the latch and
\* the configuration alone.
C17_FaultTerminal ==
  [][ (pc \in FaultPcs) =>
        /\ pc' \in FaultPcs
        /\ UNCHANGED <<timer_overflow_count, wfe_wake_count, last_print_time,
                       outp>>
        /\ (pc' # pc \/ txq' # txq) => UNCHANGED <<ovfif, pend, latch, cfg>>
        /\ (txq' # <<>> \/ pc' # "hard_fault") =>
              sent' \o txq' = STR_HARD_FAULT
        /\ pc' \in {"halt", "halt_nop"} => Len(txq') = 0
    ]_vars

C17_Witness ==
  /\ pc = "halt_nop"
  /\ sent = STR_HARD_FAULT
  /\ timer_overflow_count = One /\ wfe_wake_count = <<0, 2>>
  /\ ovfif /\ pend

\* the value of a digit character, and of a digit string read in base 10
DigitVal(ch) == CHOOSE d \in 0 .. 9 : DigitChar(d) = ch
IsDigit(ch) == \E d \in 0 .. 9 : DigitChar(d) = ch
RECURSIVE DecimalValue(_)
DecimalValue(str) ==
  IF str = <<>> THEN Zero
  ELSE BAdd(BMulS(DecimalValue(SubSeq(str, 1, Len(str) - 1)), 10),
            <<0, DigitVal(str[Len(str)])>>)
\* str is the standard base-10 numeral of v
IsDecimalOf(str, v) ==
  /\ Len(str) >= 1
  /\ \A i \in 1 .. Len(str) : IsDigit(str[i])
  /\ Len(str) > 1 => str[1] # "0"
  /\ DecimalValue(str) = v

\* C18: when usart_put_uint(value) has returned, the characters it wrote to
\* the USART are the base-10 numeral of value, most significant digit
\* first, without leading zeros, "0" for zero, 1 to 10 characters; the
\* conversion never moves ptr below buffer[0], and while the call transmits
\* the characters written are a prefix of that numeral.
C18_PutUintDecimal ==
  /\ ubuf.ptr \in 0 .. (BUF_SIZE - 1)
  /\ (pc = "put_uint" /\ txq # <<>>) =>
        /\ IsDecimalOf(sent \o txq, ubuf.value)
        /\ Len(sent \o txq) = (BUF_SIZE - 1) - ubuf.ptr
  /\ pc = "put_uint_done" =>
        /\ txq = <<>>
        /\ IsDecimalOf(sent, ubuf.value)
        /\ Len(sent) \in 1 .. 10
        /\ Len(sent) = (BUF_SIZE - 1) - ubuf.ptr
        /\ ubuf.value = Zero => sent = <<"0">>

C18_Witness ==
  /\ pc = "put_uint_done"
  /\ ubuf.value = Max32
  /\ sent = <<"4", "2", "9", "4", "9", "6", "7", "2", "9", "5">>
  /\ ubuf.ptr = 0

\* C19 (as stated): in every state in which the main loop is suspended
\* inside WFE the status flag OVFIF is clear.
C19_NeverAsleepWithFlag ==
  (pc = "wfe_sleep" /\ ~latch) => ~ovfif

\* How the loop comes to sleep on a set flag: the flag was already set when
\* the pending bit was last cleared, so that the elapse which set it (after
\* the flag clear of the iteration before, or before the loop began) left
\* the pending bit at 1 and the clear removed the only trace of it.
AsleepWithFlagOnlyIfOld ==
  (pc = "wfe_sleep" /\ ~latch /\ ovfif) => (flag_old /\ ~pend)

\* an elapse during the report of the fifth event, slept on afterwards
AsleepAfterReport ==
  /\ pc = "wfe_sleep" /\ ~latch /\ ovfif
  /\ timer_overflow_count = FromInt(REPORT_INTERVAL)
  /\ n_reports = One
  /\ n_elapse = FromInt(REPORT_INTERVAL + 1)
  /\ n_coalesced = 0

\* C20: a main-loop WFE is reached only from the pending clear, which
\* leaves the pending bit at 0; so whenever the loop is at WFE, about to
\* wait or suspended, a set pending bit comes with a set event latch.
C20_RearmInvariant ==
  [][ /\ (pc' = "wfe" /\ pc # "wfe") => (pc = "clear_pending" /\ ~pend')
      /\ (pc' \in {"wfe", "wfe_sleep"} /\ pend') => latch' ]_vars

C20_Witness ==
  /\ pc = "wfe" /\ pend /\ latch
  /\ latch_src = "tmr_post" /\ race
  /\ timer_overflow_count # Zero

\* C21: timer_overflow_count never exceeds the number of period elapses
\* since the timer was started, and neither does the unwrapped number of
\* confirmed events: the counter changes in a single step only at
\* timer_overflow_count++, which is reached only through the flag clear,
\* which is reached only from a check that saw the flag set; and the flag
\* goes from clear to set only in a step that is a new period elapse.
C21_NoDoubleCount ==
  [][ /\ BLe(timer_overflow_count', n_elapse')
      /\ BLe(events_true', n_elapse')
      /\ (pc' # pc /\ timer_overflow_count' # timer_overflow_count) =>
           pc = "inc_overflow"
      /\ (pc' = "inc_overflow" /\ pc' # pc) => (pc = "clear_flag" /\ ~ovfif')
      /\ (pc' = "clear_flag" /\ pc' # pc) => (pc = "check" /\ ovfif)
      /\ (~ovfif /\ ovfif') => n_elapse' = BAdd(n_elapse, One) ]_vars

C21_Witness ==
  /\ pc = "print_check" /\ iter_counted
  /\ timer_overflow_count = <<0, 3>>
  /\ n_elapse = <<0, 3>>
  /\ ext_post

\* C22: the update event that timer_config forces is not counted: the call
\* returns with the status flag clear, and as long as no period has elapsed
\* since the timer was started the flag stays clear, timer_overflow_count
\* is 0, the reporter is not entered and no report exists, whatever wakes
\* the loop.
C22_ForcedUpdateNotCounted ==
  [][ /\ (pc = "timer_config" /\ pc' # pc) => ~ovfif'
      /\ (n_elapse' = Zero) =>
           /\ ~ovfif'
           /\ timer_overflow_count' = Zero
           /\ events_true' = Zero
           /\ ~(pc' \in PrintPcs)
           /\ n_reports' = Zero /\ out' = <<>> /\ line' = <<>> ]_vars

C22_Witness ==
  /\ pc = "clear_pending"
  /\ cen /\ uien /\ crm_status = "CRM_OK"
  /\ n_elapse = Zero
  /\ wfe_wake_count = One /\ timer_overflow_count = Zero

\* C23: in a single step last_print_time changes only at the end of an
\* invocation of print_runtime_stats that emitted a report, and becomes the
\* current timer_overflow_count; whenever control is outside the reporter
\* (timer_overflow_count - last_print_time) mod 2^32 is in 0 .. 4; and a
\* report is completed only there, after at least one confirmed event
\* since the report before.
C23_MarkerDiscipline ==
  [][ /\ (pc' # pc /\ last_print_time' # last_print_time) =>
           /\ pc = "print_mark"
           /\ out' = ReportLine(timer_overflow_count', wfe_wake_count')
      /\ (pc = "print_mark" /\ pc' # pc) =>
           /\ last_print_time' = timer_overflow_count'
           /\ BLt(last_true, events_true)
      /\ (pc' # pc /\ n_reports' # n_reports) => pc = "print_mark"
      /\ ~(pc' \in PrintPcs) =>
           BLt(Sub32(timer_overflow_count', last_print_time'),
               FromInt(REPORT_INTERVAL))
      /\ BLe(n_reports', events_true') ]_vars

C23_Witness ==
  /\ pc = "clear_pending"
  /\ n_reports = One
  /\ timer_overflow_count = FromInt(REPORT_INTERVAL)
  /\ last_print_time = timer_overflow_count
  /\ out # <<>>

\* C24: every step of the program (system_init, the drain, the main loop,
\* the reporter, the fault handler) and of the hardware leaves both
\* counters as they are, except wfe_wake_count++ and timer_overflow_count++
\* of the main loop body, each of which adds 1 modulo 2^32 to its counter
\* and leaves the other alone.  (A summary of many iterations is many such
\* steps.)
C24_CountersOnlyGrow ==
  [][ (jumps' = jumps) =>
        \/ UNCHANGED <<timer_overflow_count, wfe_wake_count>>
        \/ /\ pc = "inc_wake"
           /\ wfe_wake_count' = Add32(wfe_wake_count, One)
           /\ UNCHANGED timer_overflow_count
        \/ /\ pc = "inc_overflow"
           /\ timer_overflow_count' = Add32(timer_overflow_count, One)
           /\ UNCHANGED wfe_wake_count ]_vars

C24_Witness ==
  /\ pc = "halt"
  /\ sent = STR_HARD_FAULT
  /\ n_reports = One
  /\ timer_overflow_count = FromInt(REPORT_INTERVAL)
  /\ wfe_wake_count = FromInt(REPORT_INTERVAL + 1)

\* the same frame across the wrap: the single step that takes
\* timer_overflow_count from 2^32 - 1 to 0 has been taken
CounterWrappedByStep ==
  /\ timer_overflow_count = Zero
  /\ events_true = <<LIMB, 0>>
  /\ pc = "print_check"

\* the outcomes of the one-step CrmConfig are those of the steps in the
\* default build (status bits the hardware sets after the return aside)
CrmSummaryAgrees ==
  (pc = "gpio_config" /\ ~hext) =>
    /\ crm_status \in {"CRM_OK", "CRM_ERR_PLL_TIMEOUT", "CRM_ERR_SWITCH_TIMEOUT"}
    /\ clk_en = (crm_status = "CRM_OK")
    /\ timeout = 0 /\ polls = 0
    /\ crm_ctrl \ {"PLLSTBL"} = {"PLLEN"}
    /\ crm_status # "CRM_ERR_PLL_TIMEOUT" => "PLLSTBL" \in crm_ctrl
    /\ crm_cfg \ {"SCLKSTS_PLL"} =
         PllCfg(FALSE) \cup
           (IF crm_status = "CRM_ERR_PLL_TIMEOUT" THEN {} ELSE {"SCLKSEL_PLL"})
    /\ crm_status = "CRM_OK" => "SCLKSTS_PLL" \in crm_cfg
    /\ crm_misc2 = (IF crm_status = "CRM_ERR_SWITCH_TIMEOUT"
                      THEN {"AUTO_STEP_EN"} ELSE {})
    /\ flash_psr = (IF crm_status = "CRM_ERR_PLL_TIMEOUT" THEN {} ELSE FlashFast)

\* C25: crm_config always returns; a wait gives up at its 50000th
\* unsuccessful poll and returns its own error code from the first wait
\* that expires, with none of the later steps performed and the peripheral
\* clocks not enabled; CRM_OK is returned only with PLLSTBL and SCLKSTS =
\* PLL read as set, and then the peripheral clocks are enabled.
C25_CrmConfigTerminates ==
  /\ <>(pc = "gpio_config")
  /\ [][ /\ (crm_status' # crm_status) =>
             /\ crm_status = "none"
             /\ pc' = "gpio_config"
             /\ crm_status' = "CRM_ERR_HEXT_TIMEOUT" =>
                  /\ hext /\ pc = "crm_hext_wait"
                  /\ polls + 1 = CRM_HEXT_TIMEOUT
                  /\ "HEXTSTBL" \notin crm_ctrl
                  /\ crm_ctrl' = {"HEXTEN"} /\ crm_cfg' = {}
                  /\ crm_misc2' = {} /\ flash_psr' = {} /\ ~clk_en'
             /\ crm_status' = "CRM_ERR_PLL_TIMEOUT" =>
                  /\ pc = "crm_pll_wait"
                  /\ polls + 1 = CRM_PLL_TIMEOUT
                  /\ "PLLSTBL" \notin crm_ctrl
                  /\ "SCLKSEL_PLL" \notin crm_cfg'
                  /\ crm_misc2' = {} /\ flash_psr' = {} /\ ~clk_en'
             /\ crm_status' = "CRM_ERR_SWITCH_TIMEOUT" =>
                  /\ pc = "crm_switch_wait"
                  /\ polls + 1 = CRM_SWITCH_TIMEOUT
                  /\ "SCLKSTS_PLL" \notin crm_cfg
                  /\ "AUTO_STEP_EN" \in crm_misc2' /\ ~clk_en'
             /\ crm_status' = "CRM_OK" =>
                  /\ pc = "crm_switch_wait"
                  /\ "PLLSTBL" \in crm_ctrl /\ "SCLKSTS_PLL" \in crm_cfg
                  /\ hext => "HEXTSTBL" \in crm_ctrl
                  /\ clk_en'
         /\ clk_en' => crm_status' = "CRM_OK"
         /\ (pc' = "gpio_config") <=> (crm_status' # "none")
         /\ polls' < CRM_PLL_TIMEOUT
         /\ (pc \in CrmPcs /\ pc' = pc /\ polls' # polls) =>
              /\ polls' = polls + 1
              /\ polls' = CRM_PLL_TIMEOUT - timeout'
         /\ (pc = "gpio_config") =>
              UNCHANGED <<crm_status, clk_en, crm_misc2, flash_psr>> ]_vars

C25_Witness ==
  /\ pc = "gpio_config"
  /\ hext
  /\ crm_status = "CRM_ERR_SWITCH_TIMEOUT"
  /\ ~clk_en
  /\ {"HEXTSTBL", "PLLSTBL"} \subseteq crm_ctrl
  /\ "SCLKSTS_PLL" \notin crm_cfg

\* the other returns of crm_config
CrmReturnedOk == pc = "gpio_config" /\ crm_status = "CRM_OK" /\ clk_en
CrmReturnedPllTimeout ==
  pc = "gpio_config" /\ crm_status = "CRM_ERR_PLL_TIMEOUT" /\ ~hext
CrmReturnedHextTimeout ==
  pc = "gpio_config" /\ crm_status = "CRM_ERR_HEXT_TIMEOUT"

CrmFailed == crm_status \notin {"none", "CRM_OK"}

\* C26: after an error return of crm_config, system_init goes on through
\* the same calls; TMR14 stays unclocked and never runs, no period
\* elapses, timer_overflow_count stays 0, no event is confirmed and no
\* report is started or completed.
C26_CrmErrorIsFatal ==
  [][ CrmFailed' =>
        /\ ~clk_en' /\ ~TimerRunning' /\ ~cen' /\ ~uien'
        /\ ~ovfif' /\ ~pend'
        /\ n_elapse' = Zero
        /\ timer_overflow_count' = Zero
        /\ events_true' = Zero
        /\ n_reports' = Zero /\ out' = <<>> /\ line' = <<>>
        /\ ~(pc' \in PrintPcs)
        /\ pc' \notin {"clear_flag", "inc_overflow"}
        /\ (pc = "gpio_config") => pc' \in {pc, "timer_config"}
        /\ (pc = "timer_config") => pc' \in {pc, "usart_config"}
        /\ (pc = "usart_config") => pc' \in {pc, "set_sevonpend"}
        /\ (pc = "set_sevonpend") => pc' \in {pc, "sev"} ]_vars

C26_Witness ==
  /\ CrmFailed
  /\ pc = "print_system_info"
  /\ sevonpend
  /\ txq = BannerText
  /\ latch /\ ext_post
  /\ timer_overflow_count = Zero

====
